---------------------------- MODULE Spec2Model ----------------------------
(***************************************************************************)
(* Model of connectomics/data/utils/data_transform.py: the distance-       *)
(* transform encoders (edt_semantic, edt_instance, sdt_instance,           *)
(* distance_transform, skeleton_aware_distance_transform), the energy      *)
(* quantizer and the quantized-energy decoder.                             *)
(*                                                                         *)
(* Numbers.  Every real the program computes here is of the form           *)
(*      sign(p) * sqrt(|p|) / (sqrt(q) + e * eps)                          *)
(* with p an integer (a signed square), q a positive integer and e 0 or 1  *)
(* (eps = 1e-6, the normalisation epsilon).  Such a number is the triple   *)
(* <<p, q, e>>; the rational n/d is <<n*|n|, d*d, 0>>.  Comparisons are    *)
(* exact integer cross-multiplications.                                    *)
(* A skeleton-aware energy (boundary / (skeleton + boundary + eps)) **     *)
(* alpha is the triple <<boundary^2, skeleton^2, 2>>; it is only tested    *)
(* for zero and never compared with a number of another kind.              *)
(***************************************************************************)
EXTENDS Integers, Sequences, FiniteSets, TLC

VARIABLES pc, args, lab, indices, distance, semantic, passes, calls, result

vars == <<pc, args, lab, indices, distance, semantic, passes, calls, result>>

None == "None"

----------------------------------------------------------------------------
(* Bounds of the model *)

\* largest number of quantization levels tried
MaxLevels == 4
\* energies fed to the quantizer are the rationals n/d with d <= MaxDen
MaxDen == 5

----------------------------------------------------------------------------
(* Exact numbers *)

Abs(n) == IF n < 0 THEN -n ELSE n

Rat(n, d) == <<n * Abs(n), d * d, 0>>

Zero == Rat(0, 1)

\* v >= n/d  (d > 0).  With e = 1 the value lies strictly below
\* sqrt(p/q), by less than the gap between two distinct ratios of the model.
GeqRat(v, n, d) ==
    IF v[3] = 0 THEN v[1] * d * d >= n * Abs(n) * v[2]
    ELSE n <= 0 \/ v[1] * d * d > n * Abs(n) * v[2]

IsZero(v) == v[1] = 0

\* v = n/d exactly
EqRat(v, n, d) == v[3] = 0 /\ v[1] * d * d = n * Abs(n) * v[2]

----------------------------------------------------------------------------
(* Arrays.  An index is a tuple of 0-based coordinates; a shape is the tuple *)
(* of axis lengths.  An integer or real array is a record [shape, at]; a     *)
(* boolean array of a known shape is the set of its True cells.              *)

RECURSIVE Cells(_)
Cells(shape) ==
    IF shape = <<>> THEN {<<>>}
    ELSE {<<i>> \o c : i \in 0..(shape[1] - 1), c \in Cells(Tail(shape))}

\* c + d, coordinate by coordinate
Shift(c, d) ==
    IF Len(c) = 2 THEN <<c[1] + d[1], c[2] + d[2]>>
    ELSE IF Len(c) = 3 THEN <<c[1] + d[1], c[2] + d[2], c[3] + d[3]>>
    ELSE [i \in DOMAIN c |-> c[i] + d[i]]

\* the tuple <<k, ..., k>> of length n
Const(n, k) == [i \in 1..n |-> k]

\* the function f itself, tabulated
Table(f) == f @@ <<>>

RECURSIVE SumSeq(_)
SumSeq(s) == IF s = <<>> THEN 0 ELSE s[1] + SumSeq(Tail(s))

\* all offsets of (-r..r)^n
RECURSIVE Offsets(_, _)
Offsets(n, r) ==
    IF n = 0 THEN {<<>>}
    ELSE {<<i>> \o d : i \in (-r)..r, d \in Offsets(n - 1, r)}


MinOf(S) == CHOOSE x \in S : \A y \in S : x <= y
MaxOf(S) == CHOOSE x \in S : \A y \in S : x >= y

\* the first cell of S in raster (C) order: least on axis 1, then on axis 2, ...
RECURSIVE FirstFrom(_, _)
FirstFrom(S, axis) ==
    LET least == MinOf({c[axis] : c \in S})
        rest  == {c \in S : c[axis] = least}
    IN  IF Cardinality(rest) = 1 THEN CHOOSE c \in rest : TRUE
        ELSE FirstFrom(rest, axis + 1)

FirstCell(S) == FirstFrom(S, 1)

\* the neighbours of c at most `connectivity` orthogonal hops away (skimage's
\* and scipy's meaning of connectivity: 1 is the cross, ndim the full block)
Steps(n, connectivity) ==
    {d \in Offsets(n, 1) :
        LET hops == SumSeq([i \in 1..n |-> Abs(d[i])])
        IN  hops >= 1 /\ hops <= connectivity}

StepsTable == [n \in 1..3 |-> [k \in 1..3 |-> Steps(n, k)]]

Nbrs(c, connectivity) == {Shift(c, d) : d \in StepsTable[Len(c)][connectivity]}

\* the connected component of S reached from the frontier
RECURSIVE Flood(_, _, _, _)
Flood(frontier, seen, S, connectivity) ==
    IF frontier = {} THEN seen
    ELSE LET new == ((UNION {Nbrs(f, connectivity) : f \in frontier}) \cap S) \ seen
         IN  Flood(new, seen \cup new, S, connectivity)

\* the connected components of the cell set S
RECURSIVE Components(_, _)
Components(S, connectivity) ==
    IF S = {} THEN {}
    ELSE LET c    == FirstCell(S)
             comp == Flood({c}, {c}, S, connectivity)
         IN  {comp} \cup Components(S \ comp, connectivity)

\* skimage.measure.label: maximal connected regions of equal nonzero value
\* (connectivity = ndim), numbered 1, 2, ... in raster order of their first
\* cell; 0 stays 0
RECURSIVE LabelFrom(_, _, _, _)
LabelFrom(a, remaining, nextId, acc) ==
    IF remaining = {} THEN acc
    ELSE LET c    == FirstCell(remaining)
             same == {d \in remaining : a.at[d] = a.at[c]}
             comp == Flood({c}, {c}, same, Len(a.shape))
         IN  LabelFrom(a, remaining \ comp, nextId + 1,
                       Table([d \in DOMAIN acc |->
                                 IF d \in comp THEN nextId ELSE acc[d]]))

label_cc(a) ==
    [shape |-> a.shape,
     at |-> LabelFrom(a, {c \in DOMAIN a.at : a.at[c] # 0}, 1,
                      [c \in DOMAIN a.at |-> 0])]

\* np.pad(x, m, mode='constant', constant_values=0)
np_pad(a, m) ==
    LET shape2 == [i \in DOMAIN a.shape |-> a.shape[i] + 2 * m]
    IN  [shape |-> shape2,
         at |-> Table([c \in Cells(shape2) |->
                    LET o == Shift(c, Const(Len(c), -m))
                    IN  IF o \in DOMAIN a.at THEN a.at[o] ELSE 0])]

\* data_misc.get_padsize(pad_size, ndim): (before, after) for every axis
get_padsize(pad_size, ndim) == [i \in 1..ndim |-> <<pad_size, pad_size>>]

\* data_misc.array_unpad(data, pad_size): data[before : length - after] on
\* every axis
array_unpad(a, padsize) ==
    LET shape2 == [i \in DOMAIN a.shape |->
                      a.shape[i] - padsize[i][1] - padsize[i][2]]
    IN  [shape |-> shape2,
         at |-> [c \in Cells(shape2) |->
                    a.at[Shift(c, [i \in DOMAIN c |-> padsize[i][1]])]]]

\* skimage.morphology.remove_small_holes(mask, area_threshold, connectivity):
\* every connected component of the complement with fewer than area_threshold
\* cells becomes True (remove_small_objects on the inverted array; whether
\* the component touches the frame plays no part)
remove_small_holes(mask, all, area_threshold, connectivity) ==
    LET holes == Components(all \ mask, connectivity)
    IN  mask \cup UNION {h \in holes : Cardinality(h) < area_threshold}

\* skimage.morphology.disk(r) / ball(r): the offsets within Euclidean radius r
Footprint(ndim, radius) ==
    {d \in Offsets(ndim, radius) :
        SumSeq([i \in 1..ndim |-> d[i] * d[i]]) <= radius * radius}

\* skimage.morphology.binary_erosion(mask, footprint): cells beyond the frame
\* count as True
binary_erosion(mask, all, footprint) ==
    {c \in mask : \A d \in footprint :
        LET n == Shift(c, d) IN n \notin all \/ n \in mask}

\* squared distance between two cells under a per-axis sampling
Sq(x) == x * x

SqDist(c, d, sampling) ==
    IF Len(c) = 2
    THEN Sq(sampling[1] * (c[1] - d[1])) + Sq(sampling[2] * (c[2] - d[2]))
    ELSE SumSeq([i \in DOMAIN c |-> Sq(sampling[i] * (c[i] - d[i]))])

\* scipy.ndimage.distance_transform_edt(mask, sampling), squared: for a True
\* cell the squared distance to the nearest False cell, 0 on a False cell.
\* On an array with no False cell the feature transform stays at index -1 on
\* every axis, so the distance is that to the cell (-1, ..., -1).
edt_sq(mask, all, sampling) ==
    LET bg  == all \ mask
    IN  Table([c \in all |->
            IF c \notin mask THEN 0
            ELSE IF bg = {} THEN SqDist(c, Const(Len(c), -1), sampling)
            ELSE MinOf({SqDist(c, b, sampling) : b \in bg})])

----------------------------------------------------------------------------
(* distance_transform *)

\* hole area passed to remove_small_holes
HoleArea == 16
\* pad_size of distance_transform and skeleton_aware_distance_transform
PadSize == 2

\* v < w for two numbers of the model
VLess(v, w) ==
    \/ v[1] * w[2] < w[1] * v[2]
    \/ /\ v[1] * w[2] = w[1] * v[2]
       /\ IF v[3] = 0 THEN FALSE
          ELSE IF w[3] = 0 THEN TRUE
          ELSE v[2] < w[2] \/ (v[2] = w[2] /\ v[1] < w[1])

\* a faulty variant of np.maximum: the later instance overwrites its footprint
OverwriteNonzero(v, w) == IF IsZero(w) THEN v ELSE w

\* np.maximum on two numbers
Maximum(v, w) == IF VLess(v, w) THEN w ELSE v

\* np.unique(label) and the exclusion of the background id: the ids the loop
\* visits ({} for the all-background sample)
Indices(a) ==
    LET u == {a.at[c] : c \in DOMAIN a.at}
    IN  IF 0 \in u THEN u \ {0} ELSE u

\* lines 159-161: the processed mask of instance idx
InstanceMask(a, idx, erosion) ==
    LET filled == remove_small_holes({c \in DOMAIN a.at : a.at[c] = idx},
                                     DOMAIN a.at, HoleArea, 1)
    IN  IF erosion > 0
        THEN binary_erosion(filled, DOMAIN a.at, Footprint(Len(a.shape), erosion))
        ELSE filled

\* a faulty variant of the normalisation: divide by the smallest positive distance
NormalizeByMin(b) ==
    LET pos == {b[c] : c \in DOMAIN b} \ {0}
        m   == IF pos = {} THEN 0 ELSE MinOf(pos)
    IN  [c \in DOMAIN b |-> IF b[c] = 0 THEN Zero ELSE <<b[c], m, 1>>]

\* line 165: energy = boundary_edt / (boundary_edt.max() + eps)
Normalize(b) ==
    LET m == MaxOf({b[c] : c \in DOMAIN b})
    IN  Table([c \in DOMAIN b |-> IF b[c] = 0 THEN Zero ELSE <<b[c], m, 1>>])

\* the record of one distance_transform_edt(mask, sampling) invocation: its
\* sampling, and whether the mask had no False cell
EdtCall(mask, all, sampling) ==
    [sampling |-> sampling, full |-> (mask = all)]

\* semantic += temp2.astype(np.uint8)
AddMask(sem, temp2) ==
    [c \in DOMAIN sem |-> (sem[c] + (IF c \in temp2 THEN 1 ELSE 0)) % 256]

\* distance = np.maximum(distance, energy * temp2.astype(np.float32))
Fuse(dist, energy, temp2) ==
    [c \in DOMAIN dist |->
        Maximum(dist[c], IF c \in temp2 THEN energy[c] ELSE Zero)]

\* lines 159-166: one pass of the loop body over the accumulators.  calls is
\* the set of EDT invocations made so far; passes records, for every instance
\* visited, the mask accumulated and measured (temp2) and the mask
\* skeletonized (binary; for this transform, which has no skeleton, temp2)
DtBody(a, acc, idx, resolution, erosion) ==
    LET temp2  == InstanceMask(a, idx, erosion)
        energy == Normalize(edt_sq(temp2, DOMAIN a.at, resolution))
    IN  [semantic |-> AddMask(acc.semantic, temp2),
         distance |-> Fuse(acc.distance, energy, temp2),
         calls    |-> acc.calls \cup {EdtCall(temp2, DOMAIN a.at, resolution)},
         passes   |-> acc.passes \cup
                        {[idx |-> idx, binary |-> temp2, temp2 |-> temp2]}]

\* lines 131-138: relabel and pad
Prepare(label, relabel, padding) ==
    LET l1 == IF relabel THEN label_cc(label) ELSE label
    IN  IF padding THEN np_pad(l1, PadSize) ELSE l1

\* lines 142-143: the zero accumulators
ZeroAcc(a) ==
    [semantic |-> [c \in DOMAIN a.at |-> 0],
     distance |-> [c \in DOMAIN a.at |-> Zero],
     calls    |-> {},
     passes   |-> {}]

\* a faulty variant of lines 170-175: only the distance map is unpadded
FinalizeDistanceOnly(a, acc, bg_value, padding) ==
    LET d1 == [c \in DOMAIN acc.distance |->
                  IF bg_value # 0 /\ IsZero(acc.distance[c])
                  THEN Rat(bg_value, 1) ELSE acc.distance[c]]
        dist == [shape |-> a.shape, at |-> d1]
        sem  == [shape |-> a.shape, at |-> acc.semantic]
    IN  [distance |-> IF padding
                      THEN array_unpad(dist, get_padsize(PadSize, Len(a.shape)))
                      ELSE dist,
         semantic |-> sem, calls |-> acc.calls]

\* lines 168-177: background substitution and unpadding
Finalize(a, acc, bg_value, padding) ==
    LET d1 == [c \in DOMAIN acc.distance |->
                  IF bg_value # 0 /\ IsZero(acc.distance[c])
                  THEN Rat(bg_value, 1) ELSE acc.distance[c]]
        dist == [shape |-> a.shape, at |-> d1]
        sem  == [shape |-> a.shape, at |-> acc.semantic]
    IN  IF padding
        THEN [distance |-> array_unpad(dist, get_padsize(PadSize, Len(a.shape))),
              semantic |-> array_unpad(sem, get_padsize(PadSize, Len(a.shape))),
              calls |-> acc.calls]
        ELSE [distance |-> dist, semantic |-> sem, calls |-> acc.calls]

\* the loop of lines 158-166 in the order of np.unique (ascending)
RECURSIVE DtLoop(_, _, _, _, _)
DtLoop(a, acc, todo, resolution, erosion) ==
    IF todo = {} THEN acc
    ELSE LET idx == MinOf(todo)
         IN  DtLoop(a, DtBody(a, acc, idx, resolution, erosion),
                    todo \ {idx}, resolution, erosion)

\* distance_transform as one call
distance_transform(label, bg_value, relabel, padding, resolution, erosion) ==
    LET a == Prepare(label, relabel, padding)
    IN  Finalize(a, DtLoop(a, ZeroAcc(a), Indices(a), resolution, erosion),
                 bg_value, padding)

----------------------------------------------------------------------------
(* skeleton_aware_distance_transform *)

\* the smoothed mask at or below which smoothing is undone (line 238)
SmoothCollapse == 32

\* One round of smooth_edge: skimage.filters.gaussian(sigma=2) followed by
\* the threshold at 0.5.  The blur is an external primitive; its thresholded
\* outcome is one of three behaviours chosen by the environment: the contour
\* recedes by a pixel, stays, or advances by a pixel.
GaussianThreshold(mask, all, blur) ==
    IF blur = "recede"
    THEN {c \in mask : \A n \in Nbrs(c, 1) : n \notin all \/ n \in mask}
    ELSE IF blur = "advance"
    THEN mask \cup ((UNION {Nbrs(c, 1) : c \in mask}) \cap all)
    ELSE mask

\* lines 180-186: two rounds
smooth_edge(binary, all, blur) ==
    GaussianThreshold(GaussianThreshold(binary, all, blur), all, blur)

\* skimage.morphology.skeletonize: an external primitive, held here by its
\* contract (a thin subset of the mask): the ridge of the mask's own distance
\* map, i.e. the cells no neighbour of which lies deeper in the mask.
skeletonize(binary, all) ==
    LET depth == edt_sq(binary, all, <<1, 1>>)
    IN  {c \in binary :
            \A n \in Nbrs(c, 2) \cap binary : depth[n] <= depth[c]}

\* line 238: binary.astype(int).sum() <= 32
Collapsed(smoothed) == Cardinality(smoothed) <= SmoothCollapse

\* a faulty variant of line 244: the smoothed mask is skeletonized as it is
SkeletonInputNoIntersect(smoothed, filled, smooth, only) ==
    IF ~smooth \/ Collapsed(smoothed) THEN filled ELSE smoothed

\* lines 234-246: the mask handed to skeletonize (binary)
SkeletonInput(smoothed, filled, smooth, only) ==
    IF ~smooth \/ Collapsed(smoothed) THEN filled
    ELSE IF only THEN smoothed \cap filled
    ELSE smoothed

\* lines 233-246: the mask accumulated and measured (temp2)
InstanceFootprint(smoothed, filled, smooth, only) ==
    IF ~smooth \/ Collapsed(smoothed) THEN filled
    ELSE IF only THEN filled
    ELSE smoothed

\* line 257-258: energy = (boundary_edt / (skeleton_edt + boundary_edt + eps))
\* ** alpha, held as <<boundary^2, skeleton^2, 2>>: for a fixed alpha > 0 it
\* grows with boundary / (skeleton + eps)
SkeletonEnergy(boundary, skel) ==
    Table([c \in DOMAIN boundary |->
              IF boundary[c] = 0 THEN Zero ELSE <<boundary[c], skel[c], 2>>])

\* lines 233-259: one pass of the loop body
SdtBody(a, acc, idx, resolution, smooth, only, blur) ==
    LET all      == DOMAIN a.at
        filled   == remove_small_holes({c \in all : a.at[c] = idx},
                                       all, HoleArea, 1)
        smoothed == IF smooth THEN smooth_edge(filled, all, blur) ELSE filled
        binary   == SkeletonInput(smoothed, filled, smooth, only)
        temp2    == InstanceFootprint(smoothed, filled, smooth, only)
        skeleton_mask == skeletonize(binary, all)
        notskel  == all \ skeleton_mask
        energy   == SkeletonEnergy(edt_sq(temp2, all, resolution),
                                   edt_sq(notskel, all, resolution))
    IN  [semantic |-> AddMask(acc.semantic, temp2),
         distance |-> Fuse(acc.distance, energy, temp2),
         calls    |-> acc.calls \cup {EdtCall(notskel, all, resolution),
                                      EdtCall(temp2, all, resolution)},
         passes   |-> acc.passes \cup
                        {[idx |-> idx, binary |-> binary, temp2 |-> temp2]}]

RECURSIVE SdtLoop(_, _, _, _, _, _, _)
SdtLoop(a, acc, todo, resolution, smooth, only, blur) ==
    IF todo = {} THEN acc
    ELSE LET idx == MinOf(todo)
         IN  SdtLoop(a, SdtBody(a, acc, idx, resolution, smooth, only, blur),
                     todo \ {idx}, resolution, smooth, only, blur)

\* skeleton_aware_distance_transform as one call
skeleton_aware_distance_transform(label, bg_value, relabel, padding, resolution, smooth, only, blur) ==
    LET a == Prepare(label, relabel, padding)
    IN  Finalize(a, SdtLoop(a, ZeroAcc(a), Indices(a), resolution,
                            smooth, only, blur),
                 bg_value, padding)

----------------------------------------------------------------------------
(* energy_quantize *)

\* a faulty variant: range(1, levels + 1) in place of range(levels)
BinsOffByOne(levels) ==
    <<  <<-1, 1>>  >> \o [i \in 1..levels |-> <<i, levels>>] \o <<  <<11, 10>>  >>

\* bins = [-1.0, 0/levels, ..., (levels-1)/levels, 1.1], as <<n, d>> pairs
Bins(levels) ==
    <<  <<-1, 1>>  >> \o [i \in 1..levels |-> <<i - 1, levels>>] \o <<  <<11, 10>>  >>

\* a faulty variant: np.digitize(x, bins, right=True), bins[i-1] < x <= bins[i]
DigitizeRightClosed(x, bins) ==
    Cardinality({i \in 1..Len(bins) :
                    GeqRat(x, bins[i][1], bins[i][2])
                    /\ ~EqRat(x, bins[i][1], bins[i][2])})

\* np.digitize(x, bins): the i with bins[i-1] <= x < bins[i] (bins increasing),
\* i.e. the number of edges that are <= x
Digitize(x, bins) ==
    Cardinality({i \in 1..Len(bins) : GeqRat(x, bins[i][1], bins[i][2])})

\* One element of np.digitize(energy, bins) - 1.  A skeleton-aware energy
\* (kind 2) carries the exponent alpha and is not compared with the edges
\* here: its class is held as the unevaluated pair of value and levels.
QuantizeOne(x, levels) ==
    IF x[3] = 2 THEN <<"digitize", x, levels>>
    ELSE Digitize(x, Bins(levels)) - 1

\* energy is an array (here: a function from positions to numbers)
energy_quantize(energy, levels) ==
    [c \in DOMAIN energy |-> QuantizeOne(energy[c], levels)]

----------------------------------------------------------------------------
(* Slices of a stack: label[i] and np.stack(list, 0) *)

SliceOf(a, i) ==
    [shape |-> Tail(a.shape),
     at |-> Table([c \in Cells(Tail(a.shape)) |-> a.at[<<i>> \o c]])]

\* slices is a function from 0..n-1 to arrays of one shape
Stack(slices, n) ==
    LET inner == slices[0].shape
    IN  [shape |-> <<n>> \o inner,
         at |-> Table([c \in Cells(<<n>> \o inner) |-> slices[c[1]].at[Tail(c)]])]

----------------------------------------------------------------------------
(* edt_semantic *)

\* the constant returned for a mask with no background (line 55)
Saturation == 5
\* default alpha_fore and alpha_back (lines 25-26)
AlphaFore == 8
AlphaBack == 50

\* _edt_binary_mask without the test for a full mask
EdtBinaryMaskAlways(mask, all, resolution, alpha) ==
    [value |-> LET d == edt_sq(mask, all, resolution)
               IN  Table([c \in all |->
                            IF d[c] = 0 THEN Zero ELSE <<d[c], alpha * alpha, 0>>]),
     calls |-> {EdtCall(mask, all, resolution)}]

\* lines 53-57: _edt_binary_mask, with the EDT invocations it makes.
\* distance / alpha is sqrt(d2) / alpha = sqrt(d2 / alpha^2).
edt_binary_mask(mask, all, resolution, alpha) ==
    IF mask = all
    THEN [value |-> [c \in all |-> Rat(Saturation, 1)], calls |-> {}]
    ELSE [value |-> LET d == edt_sq(mask, all, resolution)
                    IN  Table([c \in all |->
                            IF d[c] = 0 THEN Zero ELSE <<d[c], alpha * alpha, 0>>]),
          calls |-> {EdtCall(mask, all, resolution)}]

\* the cells of slice i of a cell set of a stack
SliceSet(S, i) == {Tail(c) : c \in {d \in S : d[1] = i}}

\* lines 44-48: the transform of every slice, stacked
EdtSlices(mask, shape, resolution, alpha) ==
    LET inner == Cells(Tail(shape))
        each  == [i \in 0..(shape[1] - 1) |->
                     edt_binary_mask(SliceSet(mask, i), inner, resolution, alpha)]
    IN  [value |-> Table([c \in Cells(shape) |-> each[c[1]].value[Tail(c)]]),
         calls |-> UNION {each[i].calls : i \in DOMAIN each}]

\* lines 30 and 66: assert mode in ['2d', '3d']
EdtModeOk(mode) == mode \in {"2d", "3d"}

\* lines 31-50.  The result np.tanh(fore_edt - back_edt) is held, cell by
\* cell, as the pair <<fore_edt, back_edt>> under the tanh.
edt_semantic(label, mode, alpha_fore, alpha_back) ==
    LET do_2d == Len(label.shape) = 2
        resolution == IF mode = "2d" \/ do_2d THEN <<1, 1>> ELSE <<6, 1, 1>>
        all  == DOMAIN label.at
        fore == {c \in all : label.at[c] # 0}
        back == {c \in all : label.at[c] = 0}
        whole == mode = "3d" \/ do_2d
        fore_edt == IF whole THEN edt_binary_mask(fore, all, resolution, alpha_fore)
                    ELSE EdtSlices(fore, label.shape, resolution, alpha_fore)
        back_edt == IF whole THEN edt_binary_mask(back, all, resolution, alpha_back)
                    ELSE EdtSlices(back, label.shape, resolution, alpha_back)
    IN  [value |-> [shape |-> label.shape,
                    at |-> Table([c \in all |-> <<fore_edt.value[c], back_edt.value[c]>>])],
         calls |-> fore_edt.calls \cup back_edt.calls]

----------------------------------------------------------------------------
(* edt_instance and sdt_instance *)

\* default levels of energy_quantize (line 274)
DefaultLevels == 10

QuantizeArray(a, quantize) ==
    IF quantize
    THEN [shape |-> a.shape, at |-> Table(energy_quantize(a.at, DefaultLevels))]
    ELSE a

\* lines 79 and 108: the per-slice calls name no resolution, so the callee's
\* default (1.0, 1.0) applies
SliceResolution(resolution) == <<1, 1>>

\* lines 71-73 and 83-88: the distance map, quantized on request, with the
\* EDT invocations made
InstanceResult(r, quantize) ==
    [value |-> QuantizeArray(r.distance, quantize), calls |-> r.calls]

\* lines 83-84: np.stack of the per-slice distance maps
StackResult(each, n, quantize) ==
    [value |-> QuantizeArray(Stack([i \in 0..(n - 1) |-> each[i].distance], n),
                             quantize),
     calls |-> UNION {each[i].calls : i \in 0..(n - 1)}]

\* lines 67-88
edt_instance(label, mode, quantize, resolution, padding, erosion) ==
    IF mode = "3d"
    THEN InstanceResult(
             distance_transform(label, -1, TRUE, padding, resolution, erosion),
             quantize)
    ELSE StackResult(
             [i \in 0..(label.shape[1] - 1) |->
                 distance_transform(SliceOf(label, i), -1, TRUE, padding,
                                    SliceResolution(resolution), erosion)],
             label.shape[1], quantize)

\* the mode test of edt_instance in the place of line 102
SdtModeLoose(mode) == mode \in {"2d", "3d"}

\* line 102: assert mode == "2d"
SdtModeOk(mode) == mode = "2d"

\* lines 104-117.  The blur behaviour is the environment's (see
\* GaussianThreshold).
sdt_instance(label, quantize, resolution, padding, blur) ==
    StackResult(
        [i \in 0..(label.shape[1] - 1) |->
            skeleton_aware_distance_transform(
                SliceOf(label, i), -1, TRUE, padding,
                SliceResolution(resolution), TRUE, TRUE, blur)],
        label.shape[1], quantize)

----------------------------------------------------------------------------
(* decode_quantize *)

\* np.argmax / torch.argmax over a column of values: the first index of the
\* largest value
ArgMax(col) ==
    CHOOSE k \in DOMAIN col :
        /\ \A j \in DOMAIN col : col[j] <= col[k]
        /\ \A j \in DOMAIN col : j < k => col[j] < col[k]

\* the encoder's levels (classes - 1) as the divisor
ClassesMinusOne(shape, axis) == shape[axis] - 1

\* lines 301 and 321: max_value = output.size()[1] / output.shape[0]
MaxValue(shape, axis) == shape[axis]

\* the shape without its class axis, and a cell with class k put back in
DropAxis(shape, axis) == SubSeq(shape, 1, axis - 1) \o SubSeq(shape, axis + 1, Len(shape))
WithClass(c, axis, k) == SubSeq(c, 1, axis - 1) \o <<k>> \o SubSeq(c, axis, Len(c))

\* the number of bin centres of the 'mean' policy (range(11), lines 305, 325)
MeanBins == 11

\* lines 297-332: _decode_quant_torch (class axis 2) and _decode_quant_numpy
\* (class axis 1).  'max': energy = argmax / float(max_value).  'mean': the
\* softmax over the class axis times the 11 bin centres 0.1 * (k - 1); the
\* product fails to broadcast unless there are 11 classes, and the
\* expectation is held as the unevaluated column of logits.
DecodeQuant(output, mode, axis) ==
    LET n     == output.shape[axis]
        rest  == DropAxis(output.shape, axis)
        col(c) == [k \in 0..(n - 1) |-> output.at[WithClass(c, axis, k)]]
    IN  IF mode = "max"
        THEN [ok |-> TRUE,
              value |-> [shape |-> rest,
                         at |-> [c \in Cells(rest) |->
                                   Rat(ArgMax(col(c)), MaxValue(output.shape, axis))]]]
        ELSE IF n # MeanBins THEN [ok |-> FALSE, value |-> None]
        ELSE [ok |-> TRUE,
              value |-> [shape |-> rest,
                         at |-> [c \in Cells(rest) |-> <<"expectation", col(c)>>]]]

\* line 290: assert mode in ['max', 'mean']
PolicyOk(mode) == mode \in {"max", "mean"}

\* line 289: assert type(output) in [torch.Tensor, np.ndarray]
ContainerOk(container) == container \in {"torch.Tensor", "numpy.ndarray"}

\* lines 291-294: the class axis by container (1-based: torch axis=1 is the
\* second axis, numpy axis=0 the first)
ClassAxis(container) == IF container = "torch.Tensor" THEN 2 ELSE 1

----------------------------------------------------------------------------
(* Specification of the quantizer: energy_quantize applied to a two-element *)
(* energy array.                                                            *)

\* the energies tried: n/d in [-2, 2] for d <= MaxDen, and the twentieths
\* (1.1 = 22/20 is the last edge)
Energies ==
    UNION {{<<n, d>> : n \in (-2 * d)..(2 * d)} : d \in (1..MaxDen) \cup {20}}

InitQuant ==
    /\ pc = "energy_quantize"
    /\ \E e1 \in Energies, e2 \in Energies, levels \in 1..MaxLevels :
          args = [energy |-> <<e1, e2>>, levels |-> levels]
    /\ lab = None /\ indices = {} /\ distance = None /\ semantic = None
    /\ passes = {} /\ calls = {} /\ result = None

EnergyQuantize ==
    /\ pc = "energy_quantize"
    /\ result' = energy_quantize(
                    [i \in 1..2 |-> Rat(args.energy[i][1], args.energy[i][2])],
                    args.levels)
    /\ pc' = "returned"
    /\ UNCHANGED <<args, lab, indices, distance, semantic, passes, calls>>

NextQuant == EnergyQuantize

SpecQuant == InitQuant /\ [][NextQuant]_vars

\* n1/d1 <= n2/d2
LeqFrac(a, b) == a[1] * b[2] <= b[1] * a[2]

InEnergyRange(e) == LeqFrac(<<-1, 1>>, e) /\ LeqFrac(e, <<1, 1>>)

(* C1: for every levels >= 1 and energies e1 <= e2 in [-1, 1], the quantizer
   returns integers with 0 <= q(e1) <= q(e2) <= levels. *)
C1_QuantizeBoundedMonotone ==
    (pc = "returned"
     /\ InEnergyRange(args.energy[1]) /\ InEnergyRange(args.energy[2])
     /\ LeqFrac(args.energy[1], args.energy[2]))
    => /\ result[1] \in 0..args.levels
       /\ result[2] \in 0..args.levels
       /\ result[1] <= result[2]

C1_Witness ==
    /\ pc = "returned"
    /\ InEnergyRange(args.energy[1]) /\ InEnergyRange(args.energy[2])
    /\ LeqFrac(args.energy[1], args.energy[2])
    /\ args.levels >= 3
    /\ 0 < result[1] /\ result[1] < result[2] /\ result[2] < args.levels

\* what C2 requires of one energy e with quantized value q
EdgeRule(e, q, levels) ==
    /\ (e[1] = -e[2]) => q = 0
    /\ (e[1] = e[2]) => q = levels
    /\ \A k \in 0..(levels - 1) : (e[1] * levels = k * e[2]) => q = k + 1
    /\ (LeqFrac(<<levels - 1, levels>>, e) /\ ~LeqFrac(<<11, 10>>, e)) => q = levels

(* C2: energy_quantize(-1.0) = 0 and energy_quantize(1.0) = levels; an energy
   exactly on the edge k/levels (0 <= k <= levels-1) gets class k+1; every
   energy in [(levels-1)/levels, 1.1) gets the top class levels. *)
C2_QuantizeEdges ==
    (pc = "returned")
    => \A i \in 1..2 : EdgeRule(args.energy[i], result[i], args.levels)

C2_Witness ==
    /\ pc = "returned"
    /\ args.levels >= 3
    /\ args.energy[1][1] * args.levels = 2 * args.energy[1][2]
    /\ result[1] = 3
    /\ ~LeqFrac(args.energy[2], <<1, 1>>) /\ ~LeqFrac(<<11, 10>>, args.energy[2])
    /\ result[2] = args.levels

----------------------------------------------------------------------------
(* Label maps tried *)

GridH == 3
GridW == 7

\* the cells lo..hi on every axis
Box(lo, hi) == {c \in Cells([i \in DOMAIN hi |-> hi[i] + 1]) :
                   \A i \in DOMAIN lo : c[i] >= lo[i]}

\* the boxes that touch the frame or stand one cell off it
Boxes(shape) ==
    {<<lo, hi>> \in Cells(shape) \X Cells(shape) :
        \A i \in DOMAIN shape : lo[i] <= 1 /\ lo[i] <= hi[i]}

\* the interior of a box (empty when an axis is shorter than 3)
Inner(b) ==
    {c \in Box(b[1], b[2]) :
        \A i \in DOMAIN c : c[i] > b[1][i] /\ c[i] < b[2][i]}

LastCell(shape) == [i \in DOMAIN shape |-> shape[i] - 1]

\* one box of id 1; a box with its interior left background; a box with its
\* interior another instance; a box and a far pixel of the same id
Paint(shape, b, kind) ==
    [shape |-> shape,
     at |-> [c \in Cells(shape) |->
        IF kind = "ring" /\ c \in Inner(b) THEN 0
        ELSE IF kind = "nested" /\ c \in Inner(b) THEN 2
        ELSE IF c \in Box(b[1], b[2]) THEN 1
        ELSE IF kind = "pair" /\ c = LastCell(shape) THEN 1
        ELSE 0]]

\* a 5x5 square of id 1 in the middle of a 9x9 map
SquareInNine == Paint(<<9, 9>>, <<  <<2, 2>>, <<6, 6>>  >>, "box")

LabelMaps(shape) ==
    {[shape |-> shape, at |-> [c \in Cells(shape) |-> 0]]}
    \cup {Paint(shape, b, kind) :
            b \in Boxes(shape), kind \in {"box", "ring", "nested", "pair"}}

----------------------------------------------------------------------------
(* Specification of the transforms: distance_transform and                  *)
(* skeleton_aware_distance_transform on a 2D label map, one loop pass per   *)
(* step.  The code visits the instance ids in ascending order (np.unique);  *)
(* the loop here may take them in any order.                                *)

MaxErosion == 1

Defaults ==
    [bg_value |-> -1, relabel |-> TRUE, padding |-> FALSE, resolution |-> <<1, 1>>,
     erosion |-> 0, smooth |-> TRUE, only |-> TRUE, blur |-> "same"]

\* the argument combinations tried
DtConfigs ==
    {[Defaults EXCEPT !.padding = p, !.erosion = e] :
        p \in BOOLEAN, e \in 0..MaxErosion}
    \cup {[Defaults EXCEPT !.bg_value = 0],
          [Defaults EXCEPT !.relabel = FALSE],
          [Defaults EXCEPT !.resolution = <<2, 1>>, !.padding = TRUE]}

SdtConfigs ==
    {[Defaults EXCEPT !.padding = TRUE, !.only = o, !.blur = b] :
        o \in BOOLEAN, b \in {"recede", "same", "advance"}}
    \cup {[Defaults EXCEPT !.padding = p, !.smooth = FALSE] : p \in BOOLEAN}
    \cup {Defaults}

InitTransform ==
    /\ pc = "start"
    /\ \E label \in LabelMaps(<<GridH, GridW>>) \cup {SquareInNine} :
          \/ \E cfg \in DtConfigs :
                args = [fn |-> "distance_transform", label |-> label, cfg |-> cfg]
          \/ \E cfg \in SdtConfigs :
                args = [fn |-> "skeleton_aware_distance_transform",
                        label |-> label, cfg |-> cfg]
    /\ lab = None /\ indices = {} /\ distance = None /\ semantic = None
    /\ passes = {} /\ calls = {} /\ result = None

\* lines 131-150 / 208-229
Begin ==
    /\ pc = "start"
    /\ LET a == Prepare(args.label, args.cfg.relabel, args.cfg.padding)
       IN  /\ lab' = a
           /\ indices' = Indices(a)
           /\ distance' = ZeroAcc(a).distance
           /\ semantic' = ZeroAcc(a).semantic
    /\ pc' = "loop"
    /\ UNCHANGED <<args, passes, calls, result>>

Acc == [distance |-> distance, semantic |-> semantic, calls |-> calls,
        passes |-> passes]

StoreAcc(acc, idx) ==
    /\ distance' = acc.distance
    /\ semantic' = acc.semantic
    /\ calls' = acc.calls
    /\ passes' = acc.passes
    /\ indices' = indices \ {idx}
    /\ UNCHANGED <<pc, args, lab, result>>

\* lines 158-166
DtIterate ==
    /\ pc = "loop"
    /\ args.fn = "distance_transform"
    /\ \E idx \in indices :
          StoreAcc(DtBody(lab, Acc, idx, args.cfg.resolution, args.cfg.erosion), idx)

\* lines 232-259
SdtIterate ==
    /\ pc = "loop"
    /\ args.fn = "skeleton_aware_distance_transform"
    /\ \E idx \in indices :
          StoreAcc(SdtBody(lab, Acc, idx, args.cfg.resolution, args.cfg.smooth,
                           args.cfg.only, args.cfg.blur), idx)

\* lines 168-177 / 261-271
Finish ==
    /\ pc = "loop"
    /\ indices = {}
    /\ result' = Finalize(lab, Acc, args.cfg.bg_value, args.cfg.padding)
    /\ pc' = "returned"
    /\ UNCHANGED <<args, lab, indices, distance, semantic, passes, calls>>

NextTransform == Begin \/ DtIterate \/ SdtIterate \/ Finish

SpecTransform == InitTransform /\ [][NextTransform]_vars

----------------------------------------------------------------------------
(* Properties of the transforms *)

IsDt == args.fn = "distance_transform"
IsSdt == args.fn = "skeleton_aware_distance_transform"

\* the cell of the working (possibly padded) frame that holds input cell p
Framed(p) == IF args.cfg.padding THEN Shift(p, Const(Len(p), PadSize)) ELSE p

\* input cell p lies in the processed mask of some instance
InSomeMask(p) == \E r \in passes : Framed(p) \in r.temp2

InputCells == DOMAIN args.label.at

C4_Applies ==
    /\ pc = "returned" /\ IsDt
    /\ args.cfg.bg_value = -1 /\ args.cfg.relabel
    /\ (args.cfg.padding \/ \E p \in InputCells : args.label.at[p] = 0)

(* C4: distance_transform with bg_value = -1, relabel on, any erosion, and a
   background pixel or padding: the distance is exactly -1 at every pixel
   outside all processed instance masks, and positive and at most 1 at every
   pixel inside one; the semantic mask is 0 exactly where the distance is -1;
   an all-background map yields distance all -1 and semantic all 0; an
   instance emptied by erosion contributes background only; for the 5x5
   square in the 9x9 map the semantic mask is the square. *)
C4_DistanceRange ==
    C4_Applies =>
        /\ DOMAIN result.distance.at = InputCells
        /\ DOMAIN result.semantic.at = InputCells
        /\ \A p \in InputCells :
              LET v == result.distance.at[p]
              IN  /\ ~InSomeMask(p) => v = Rat(-1, 1)
                  /\ InSomeMask(p) => (v[1] > 0 /\ v[1] <= v[2])
                  /\ (result.semantic.at[p] = 0) <=> (v = Rat(-1, 1))
        /\ (\A p \in InputCells : args.label.at[p] = 0)
              => \A p \in InputCells :
                    result.distance.at[p] = Rat(-1, 1) /\ result.semantic.at[p] = 0
        /\ (args.label.shape = <<9, 9>> /\ args.cfg.erosion = 0)
              => \A p \in InputCells :
                    /\ result.semantic.at[p] = args.label.at[p]
                    /\ (args.label.at[p] = 0) <=> (result.distance.at[p] = Rat(-1, 1))

\* an instance survives erosion, another is emptied by it
C4_Witness ==
    /\ C4_Applies
    /\ args.cfg.erosion > 0
    /\ \E r \in passes : r.temp2 = {}
    /\ \E p \in InputCells : result.distance.at[p][1] > 0
    /\ \E p \in InputCells : result.distance.at[p] = Rat(-1, 1)

\* the call in the code's own order
InOrder ==
    IF IsDt
    THEN distance_transform(args.label, args.cfg.bg_value, args.cfg.relabel,
                            args.cfg.padding, args.cfg.resolution, args.cfg.erosion)
    ELSE skeleton_aware_distance_transform(
            args.label, args.cfg.bg_value, args.cfg.relabel, args.cfg.padding,
            args.cfg.resolution, args.cfg.smooth, args.cfg.only, args.cfg.blur)

(* C5: whatever the order in which the instance ids are processed, the final
   distance map and semantic mask of distance_transform and of
   skeleton_aware_distance_transform are those of the ascending order. *)
C5_OrderIrrelevant ==
    (pc = "returned") =>
        LET ordered == InOrder
        IN  /\ result.distance = ordered.distance
            /\ result.semantic = ordered.semantic

\* two instances whose processed masks overlap
C5_Witness ==
    /\ pc = "returned"
    /\ Cardinality(passes) >= 2
    /\ \E p \in InputCells : result.semantic.at[p] >= 2

MaxMargin == 2

(* C7: unpad(pad(X, m), m) = X for every array X and margin m >= 0; with
   padding on, both transforms work on the input zero-padded by 2 on every
   axis and strip that margin from the distance map and the semantic mask,
   so both outputs have the input's shape and output pixel p is the working
   pixel p + 2. *)
C7_PaddingRoundTrip ==
    /\ (pc = "start") =>
          \A m \in 0..MaxMargin :
             array_unpad(np_pad(args.label, m),
                         get_padsize(m, Len(args.label.shape))) = args.label
    /\ (pc \in {"loop", "returned"} /\ args.cfg.padding) =>
          /\ PadSize = 2
          /\ lab.shape = [i \in DOMAIN args.label.shape |->
                             args.label.shape[i] + 2 * PadSize]
          /\ \A c \in DOMAIN lab.at :
                (\A p \in InputCells : c # Framed(p)) => lab.at[c] = 0
          /\ array_unpad(lab, get_padsize(PadSize, Len(lab.shape)))
                = Prepare(args.label, args.cfg.relabel, FALSE)
    /\ (pc = "returned") =>
          /\ result.distance.shape = args.label.shape
          /\ result.semantic.shape = args.label.shape
          /\ DOMAIN result.distance.at = InputCells
          /\ DOMAIN result.semantic.at = InputCells
          /\ \A p \in InputCells :
                /\ result.semantic.at[p] = semantic[Framed(p)]
                /\ result.distance.at[p] =
                      IF args.cfg.bg_value # 0 /\ IsZero(distance[Framed(p)])
                      THEN Rat(args.cfg.bg_value, 1) ELSE distance[Framed(p)]

\* padded call on an object that touches the frame
C7_Witness ==
    /\ pc = "returned" /\ args.cfg.padding
    /\ result.semantic.at[<<0, 0>>] = 1
    /\ \E p \in InputCells : result.semantic.at[p] = 0

FilledOf(idx) ==
    remove_small_holes({c \in DOMAIN lab.at : lab.at[c] = idx},
                       DOMAIN lab.at, HoleArea, 1)

SmoothedOf(idx) == smooth_edge(FilledOf(idx), DOMAIN lab.at, args.cfg.blur)

(* C10: skeleton_aware_distance_transform with smoothing: per instance, if the
   smoothed mask has <= 32 pixels the hole-filled mask is skeletonized and
   accumulated; otherwise with smooth_skeleton_only the intersection of
   smoothed and hole-filled is skeletonized while the hole-filled mask is
   accumulated, measured and fused; otherwise the smoothed mask takes the
   place of the hole-filled one throughout.  The skeletonized mask is always
   a subset of the accumulated one. *)
C10_SmoothingBranches ==
    (IsSdt /\ args.cfg.smooth /\ pc \in {"loop", "returned"}) =>
        /\ \A r \in passes :
              LET filled   == FilledOf(r.idx)
                  smoothed == SmoothedOf(r.idx)
              IN  /\ Cardinality(smoothed) <= 32
                        => (r.binary = filled /\ r.temp2 = filled)
                  /\ (Cardinality(smoothed) > 32 /\ args.cfg.only)
                        => (r.binary = smoothed \cap filled /\ r.temp2 = filled)
                  /\ (Cardinality(smoothed) > 32 /\ ~args.cfg.only)
                        => (r.binary = smoothed /\ r.temp2 = smoothed)
                  /\ r.binary \subseteq r.temp2
        /\ \A c \in DOMAIN lab.at :
              /\ semantic[c] = Cardinality({r \in passes : c \in r.temp2})
              /\ ~IsZero(distance[c]) <=> (\E r \in passes : c \in r.temp2)

\* the smoothed mask survives and differs from the hole-filled one
C10_Witness ==
    /\ IsSdt /\ args.cfg.smooth /\ args.cfg.only /\ pc = "returned"
    /\ \E r \in passes :
          /\ Cardinality(SmoothedOf(r.idx)) > 32
          /\ SmoothedOf(r.idx) # FilledOf(r.idx)
          /\ r.binary = FilledOf(r.idx)


----------------------------------------------------------------------------
(* Specification of the entry points: one call of edt_semantic,            *)
(* edt_instance, sdt_instance or decode_quantize, from the call to its     *)
(* return or its exception.                                                *)

VolD == 2
VolH == 2
VolW == 3
MaxClasses == 3
Positions == 2
Batch == 2

\* the boxes with a corner at the origin
OriginBoxes(shape) == {<<Const(Len(shape), 0), hi>> : hi \in Cells(shape)}

Volumes(shape) ==
    {[shape |-> shape, at |-> [c \in Cells(shape) |-> 0]]}
    \cup {Paint(shape, b, kind) :
            b \in OriginBoxes(shape), kind \in {"box", "nested", "pair"}}

\* the mode tags tried: the two of the contract and one outside it
Modes == {"2d", "3d", "4d"}
Containers == {"torch.Tensor", "numpy.ndarray", "list"}
Policies == {"max", "mean", "median"}

InstanceDefaults ==
    [quantize |-> FALSE, resolution |-> <<1, 1, 1>>, padding |-> FALSE, erosion |-> 0]

EdtInstanceConfigs ==
    {InstanceDefaults,
     [InstanceDefaults EXCEPT !.quantize = TRUE],
     [InstanceDefaults EXCEPT !.padding = TRUE],
     [InstanceDefaults EXCEPT !.resolution = <<1, 2, 1>>],
     [InstanceDefaults EXCEPT !.resolution = <<2, 1, 1>>, !.padding = TRUE]}
    \cup {[InstanceDefaults EXCEPT !.erosion = e] : e \in 1..MaxErosion}

SdtDefaults ==
    [quantize |-> FALSE, resolution |-> <<1, 1>>, padding |-> TRUE, blur |-> "same"]

SdtInstanceConfigs ==
    {SdtDefaults,
     [SdtDefaults EXCEPT !.quantize = TRUE],
     [SdtDefaults EXCEPT !.padding = FALSE],
     [SdtDefaults EXCEPT !.resolution = <<2, 1>>],
     [SdtDefaults EXCEPT !.blur = "recede"],
     [SdtDefaults EXCEPT !.blur = "advance"]}

\* a network output of the given shape whose column at every position holds
\* hi at one class and lo at the others
Scores(shape, axis, k0, stride, lo, hi) ==
    [shape |-> shape,
     at |-> [c \in Cells(shape) |->
               LET rest == SubSeq(c, 1, axis - 1) \o SubSeq(c, axis + 1, Len(c))
               IN  IF c[axis] = (k0 + stride * SumSeq(rest)) % shape[axis]
                   THEN hi ELSE lo]]

Outputs(container) ==
    LET axis == IF container = "torch.Tensor" THEN 2 ELSE 1
    IN  {Scores(IF axis = 2 THEN <<Batch, n, Positions>> ELSE <<n, Positions>>,
                axis, k0, stride, v[1], v[2]) :
            n \in (1..MaxClasses) \cup {MeanBins}, k0 \in 0..MaxClasses,
            stride \in 0..1, v \in {<<0, 1>>, <<-1, 2>>, <<1, 1>>}}

InitEntry ==
    /\ pc = "call"
    /\ \/ \E label \in Volumes(<<VolD, VolH, VolW>>) \cup Volumes(<<VolH, VolW>>),
             mode \in Modes :
             args = [fn |-> "edt_semantic", label |-> label, mode |-> mode,
                     alpha_fore |-> AlphaFore, alpha_back |-> AlphaBack]
       \/ \E label \in Volumes(<<VolD, VolH, VolW>>), mode \in Modes,
             cfg \in EdtInstanceConfigs :
             args = [fn |-> "edt_instance", label |-> label, mode |-> mode,
                     quantize |-> cfg.quantize, resolution |-> cfg.resolution,
                     padding |-> cfg.padding, erosion |-> cfg.erosion]
       \/ \E label \in Volumes(<<VolD, VolH, VolW>>), mode \in Modes,
             cfg \in SdtInstanceConfigs :
             args = [fn |-> "sdt_instance", label |-> label, mode |-> mode,
                     quantize |-> cfg.quantize, resolution |-> cfg.resolution,
                     padding |-> cfg.padding, blur |-> cfg.blur]
       \/ \E container \in Containers, mode \in Policies :
             \E output \in Outputs(container) :
                args = [fn |-> "decode_quantize", container |-> container,
                        output |-> output, mode |-> mode]
    /\ lab = None /\ indices = {} /\ distance = None /\ semantic = None
    /\ passes = {} /\ calls = {} /\ result = None

\* the call ends in an AssertionError raised by its first statements
Reject ==
    /\ pc' = "rejected"
    /\ UNCHANGED <<args, lab, indices, distance, semantic, passes, calls, result>>

\* the call returns r.value, having made the EDT invocations r.calls
Return(r) ==
    /\ pc' = "returned"
    /\ result' = r.value
    /\ calls' = r.calls
    /\ UNCHANGED <<args, lab, indices, distance, semantic, passes>>

\* lines 22-50
EdtSemantic ==
    /\ pc = "call"
    /\ args.fn = "edt_semantic"
    /\ IF ~EdtModeOk(args.mode) THEN Reject
       ELSE Return(edt_semantic(args.label, args.mode,
                                args.alpha_fore, args.alpha_back))

\* lines 60-88
EdtInstance ==
    /\ pc = "call"
    /\ args.fn = "edt_instance"
    /\ IF ~EdtModeOk(args.mode) THEN Reject
       ELSE Return(edt_instance(args.label, args.mode, args.quantize,
                                args.resolution, args.padding, args.erosion))

\* lines 91-117
SdtInstance ==
    /\ pc = "call"
    /\ args.fn = "sdt_instance"
    /\ IF ~SdtModeOk(args.mode) THEN Reject
       ELSE Return(sdt_instance(args.label, args.quantize, args.resolution,
                                args.padding, args.blur))

\* the decoder returns, or a product that does not broadcast ends the call
\* in a ValueError
Decoded(r) ==
    IF r.ok THEN Return([value |-> r.value, calls |-> {}])
    ELSE /\ pc' = "failed"
         /\ UNCHANGED <<args, lab, indices, distance, semantic, passes, calls,
                        result>>

\* lines 288-294
DecodeQuantize ==
    /\ pc = "call"
    /\ args.fn = "decode_quantize"
    /\ IF ~ContainerOk(args.container) \/ ~PolicyOk(args.mode) THEN Reject
       ELSE Decoded(DecodeQuant(args.output, args.mode, ClassAxis(args.container)))

NextEntry == EdtSemantic \/ EdtInstance \/ SdtInstance \/ DecodeQuantize

SpecEntry == InitEntry /\ [][NextEntry]_vars

----------------------------------------------------------------------------
(* Properties of the entry points *)

\* the class axis and the class count of the decoder's input, read off the
\* container
OutputAxis == IF args.container = "torch.Tensor" THEN 2 ELSE 1
NumClasses == args.output.shape[OutputAxis]

\* every column of the input holds one 1 and 0 elsewhere
OneHotInput ==
    /\ \A c \in DOMAIN args.output.at : args.output.at[c] \in {0, 1}
    /\ \A c \in DOMAIN result.at :
          Cardinality({k \in 0..(NumClasses - 1) :
                          args.output.at[WithClass(c, OutputAxis, k)] = 1}) = 1

HotClass(c) ==
    CHOOSE k \in 0..(NumClasses - 1) : args.output.at[WithClass(c, OutputAxis, k)] = 1

C3_Applies ==
    /\ pc = "returned" /\ args.fn = "decode_quantize" /\ args.mode = "max"
    /\ OneHotInput

(* C3: decode_quantize with policy 'max' on a one-hot input returns, at every
   position, k / numClasses for the class k that holds the 1, for the numpy
   layout (class axis first) and the torch layout (class axis second). *)
C3_DecodeMaxOneHot ==
    C3_Applies =>
        /\ result.shape = DropAxis(args.output.shape, OutputAxis)
        /\ \A c \in DOMAIN result.at : EqRat(result.at[c], HotClass(c), NumClasses)

C3_Witness ==
    /\ C3_Applies /\ args.container = "torch.Tensor" /\ NumClasses = MaxClasses
    /\ \E c, d \in DOMAIN result.at :
          /\ HotClass(c) = NumClasses - 1 /\ HotClass(d) = 0
          /\ EqRat(result.at[c], NumClasses - 1, NumClasses)

\* the call breaks the contract of its entry point
ContractViolated ==
    \/ args.fn \in {"edt_semantic", "edt_instance"} /\ args.mode \notin {"2d", "3d"}
    \/ args.fn = "sdt_instance" /\ args.mode # "2d"
    \/ /\ args.fn = "decode_quantize"
       /\ \/ args.container \notin {"torch.Tensor", "numpy.ndarray"}
          \/ args.mode \notin {"max", "mean"}

(* C6: a call with a mode tag outside {'2d','3d'} (edt_semantic, edt_instance),
   a mode other than '2d' (sdt_instance), or a container or policy tag outside
   the decoder's contract ends rejected, with no distance transform invoked
   and no result produced. *)
C6_ViolationsRejected ==
    (pc # "call" /\ ContractViolated) =>
        (pc = "rejected" /\ result = None /\ calls = {})

C6_Witness ==
    /\ pc = "rejected" /\ args.fn = "sdt_instance" /\ args.mode = "3d"
    /\ \E c \in DOMAIN args.label.at : args.label.at[c] # 0

AllForeground == \A c \in DOMAIN args.label.at : args.label.at[c] # 0

C8_Applies ==
    /\ pc = "returned" /\ args.fn = "edt_semantic" /\ AllForeground

(* C8: edt_semantic on a mask that is entirely foreground returns tanh of
   exactly 5 - 0 at every cell, in the whole-array and the per-slice mode,
   and never invokes the distance transform on a mask without background. *)
C8_AllForegroundSaturates ==
    C8_Applies =>
        /\ \A c \in DOMAIN result.at :
              EqRat(result.at[c][1], Saturation, 1) /\ IsZero(result.at[c][2])
        /\ \A call \in calls : ~call.full

C8_Witness ==
    /\ C8_Applies /\ args.mode = "2d" /\ Len(args.label.shape) = 3
    /\ calls # {}

\* the entries of the caller's resolution for the last n axes
LastAxes(resolution, n) ==
    SubSeq(resolution, Len(resolution) - n + 1, Len(resolution))

(* C9: every distance transform computed by edt_instance (mode '3d' and mode
   '2d') and by sdt_instance is computed under the resolution the caller
   passed. *)
C9_ResolutionApplied ==
    (pc = "returned" /\ args.fn \in {"edt_instance", "sdt_instance"}) =>
        \A call \in calls :
            call.sampling = LastAxes(args.resolution, Len(call.sampling))

=============================================================================
